---- MODULE Spec2Model ----
(***************************************************************************)
(* A model of the EDGAR company-concept viewer (src/utils.py, src/app.py): *)
(* the magnitude formatter, the statement deduplicator and its display,    *)
(* the filing catalog builder, the statement augmentation and the XBRL     *)
(* fact / context extraction.                                              *)
(*                                                                         *)
(* Python values are modelled as follows.                                  *)
(*   - Optional[T]: None is the empty sequence, a present value x is <<x>>.*)
(*   - a call that may raise returns [exc |-> name, ret |-> value];        *)
(*     exc = "none" means a normal return.                                 *)
(*   - an attribute string that is interpolated into an XPath expression   *)
(*     is a sequence of chunks in which every apostrophe is a chunk of its *)
(*     own, so that the expression can be tokenised as the library does.   *)
(***************************************************************************)
EXTENDS Integers, Sequences, FiniteSets, TLC

VARIABLES
    pc,                 \* position of the handler being run
    upstream,           \* what the remote service answers to this handler's fetches
    raised,             \* name of the exception that left the handler, or "none"
    value,              \* argument of format_value_as_readable
    readable,           \* Optional: its result
    statement_objects,  \* Optional: local of display_gaap_items
    st,                 \* what display_gaap_items put on the page
    filings,            \* Optional: the Filing list of display_company_info
    limit,              \* argument of get_xml
    xml_data,           \* argument of extract_tags
    extracted_data      \* Optional: its result

vars == <<pc, upstream, raised, value, readable, statement_objects, st,
          filings, limit, xml_data, extracted_data>>

None == <<>>

Some(x) == <<x>>

Returns(x) == [exc |-> "none", ret |-> x]

Raises(e) == [exc |-> e, ret |-> None]

Min(a, b) == IF a <= b THEN a ELSE b

\* The page before anything is rendered on it.
Blank == [kind |-> "blank", rows |-> <<>>]

(***************************************************************************)
(* General utilities: format_value_as_readable                             *)
(***************************************************************************)

Thousand == 1000

Million == 1000000

Billion == 1000000000

Pad2(n) == IF n < 10 THEN "0" \o ToString(n) ELSE ToString(n)

Pad3(n) == IF n < 10 THEN "00" \o ToString(n)
           ELSE IF n < 100 THEN "0" \o ToString(n) ELSE ToString(n)

\* The "," of the format specification: digits of n >= 0 in groups of three.
RECURSIVE Grouped(_)
Grouped(n) == IF n < 1000 THEN ToString(n)
              ELSE Grouped(n \div 1000) \o "," \o Pad3(n % 1000)

\* "{:,.2f}".format(num / den) for an integer num and den in {1, 10^3, 10^6,
\* 10^9}: the quotient rounded to two decimals, to nearest, the sign kept in
\* front of the digits.  Python rounds the binary double: a quotient that is
\* an exact tie in binary (x.125, x.375, ...) goes to the even digit, as here;
\* decimal ties that are inexact in binary (1015 / 1000) are not among the
\* sampled values.
Fixed2(num, den) ==
    LET a     == IF num < 0 THEN 0 - num ELSE num
        whole == a \div den
        rem   == a % den
        unit  == IF den = 1 THEN 1 ELSE den \div 100
        c0    == IF den = 1 THEN 0 ELSE rem \div unit
        r2    == IF den = 1 THEN 0 ELSE rem % unit
        up    == 2 * r2 > unit \/ (2 * r2 = unit /\ c0 % 2 = 1)
        c1    == IF up THEN c0 + 1 ELSE c0
        w     == IF c1 = 100 THEN whole + 1 ELSE whole
        c     == IF c1 = 100 THEN 0 ELSE c1
    IN  (IF num < 0 THEN "-" ELSE "") \o Grouped(w) \o "." \o Pad2(c)

\* A plausible slip: the "K" branch taken for every value below a million.
format_value_as_readable_K(v) ==
    IF v >= Billion THEN "$" \o Fixed2(v, Billion) \o "B"
    ELSE IF v >= Million THEN "$" \o Fixed2(v, Million) \o "M"
    ELSE "$" \o Fixed2(v, Thousand) \o "K"

format_value_as_readable(v) ==
    IF v >= Billion THEN "$" \o Fixed2(v, Billion) \o "B"
    ELSE IF v >= Million THEN "$" \o Fixed2(v, Million) \o "M"
    ELSE IF v >= Thousand THEN "$" \o Fixed2(v, Thousand) \o "K"
    ELSE "$" \o Fixed2(v, 1)

\* Bound: largest leading factor of the sampled magnitudes.
MaxMant == 2

Scales == {1, 10, 100, 1000, 10000, 100000, 1000000, 10000000, 100000000,
           1000000000}

\* Sampled integer magnitudes: around every power of ten up to the thresholds
\* and beyond, both signs, and the values the documentation quotes.
Values ==
    LET fits == {p \in (1..MaxMant) \X Scales : p[1] <= 2147483647 \div p[2]}
        pos  == {p[1] * p[2] + o : p \in fits, o \in {-1, 0}}
    IN  pos \cup {0 - p : p \in pos}
            \cup {1500000000, 2500000, 750, 42, 1125, 1234567, -5000000}

InitFormat ==
    /\ pc = "format"
    /\ upstream = None
    /\ raised = "none"
    /\ value \in Values
    /\ readable = None
    /\ statement_objects = None
    /\ st = Blank
    /\ filings = None
    /\ limit = 0
    /\ xml_data = None
    /\ extracted_data = None

FormatValue ==
    /\ pc = "format"
    /\ readable' = Some(format_value_as_readable(value))
    /\ pc' = "formatted"
    /\ UNCHANGED <<upstream, raised, value, statement_objects, st, filings,
                   limit, xml_data, extracted_data>>

NextFormat == FormatValue

SpecFormat == InitFormat /\ [][NextFormat]_vars

\* The magnitude bucket the documentation describes: chosen from |v|.
AbsBucket(v) ==
    LET a == IF v < 0 THEN 0 - v ELSE v
    IN  IF a >= Billion THEN [den |-> Billion, suffix |-> "B"]
        ELSE IF a >= Million THEN [den |-> Million, suffix |-> "M"]
        ELSE IF a >= Thousand THEN [den |-> Thousand, suffix |-> "K"]
        ELSE [den |-> 1, suffix |-> ""]

\* C7: for every integer v the bucket (divisor and suffix) is chosen from the
\* absolute value of v and the sign stays in the numeric portion, so a negative
\* v of magnitude >= 10^3 is scaled and suffixed like -v.
C7_AbsoluteBuckets ==
    pc = "formatted" =>
        readable = Some("$" \o Fixed2(value, AbsBucket(value).den)
                            \o AbsBucket(value).suffix)

\* C10 as written: 1_500_000_000 -> "$1.50B", 2_500_000 -> "$2.50M",
\* 750 -> "$0.75K", 42 -> "$42.00".
C10_QuotedValuesAsWritten ==
    pc = "formatted" =>
        /\ (value = 1500000000 => readable = Some("$1.50B"))
        /\ (value = 2500000 => readable = Some("$2.50M"))
        /\ (value = 750 => readable = Some("$0.75K"))
        /\ (value = 42 => readable = Some("$42.00"))

\* C10 (amended): format_value_as_readable maps 1_500_000_000 to "$1.50B",
\* 2_500_000 to "$2.50M", 750 to "$750.00" (below 10^3: no scaling, no
\* suffix) and 42 to "$42.00".
C10_QuotedValues ==
    pc = "formatted" =>
        /\ (value = 1500000000 => readable = Some("$1.50B"))
        /\ (value = 2500000 => readable = Some("$2.50M"))
        /\ (value = 750 => readable = Some("$750.00"))
        /\ (value = 42 => readable = Some("$42.00"))

C10_Witness == pc = "formatted" /\ value = 750 /\ readable = Some("$750.00")

(***************************************************************************)
(* Statement utilities: get_request, get_statement_data and the handler    *)
(* display_gaap_items of the page                                          *)
(***************************************************************************)

\* A JSON number: its integer part and, when written with one, its fraction
\* digit (2023 is Num(2023, None), 2023.0 is Num(2023, Some(0))).
Num(w, f) == [whole |-> w, frac |-> f]

\* str(x).split(".") of a JSON number.
str_split(x) ==
    IF x.frac = None THEN <<ToString(x.whole)>>
    ELSE <<ToString(x.whole), ToString(x.frac[1])>>

\* int(x) of a JSON number: truncation.
int(x) == x.whole

\* datetime.strptime(s, '%Y-%m-%d') on the sampled date strings.
strptime(s) ==
    CASE s = "2023-09-30" -> [year |-> 2023, month |-> 9, day |-> 30]
      [] s = "2023-07-01" -> [year |-> 2023, month |-> 7, day |-> 1]
      [] s = "2022-09-24" -> [year |-> 2022, month |-> 9, day |-> 24]

\* datetime comparison a <= b.
DateLE(a, b) ==
    \/ a.year < b.year
    \/ a.year = b.year /\ a.month < b.month
    \/ a.year = b.year /\ a.month = b.month /\ a.day <= b.day

FiscalPeriods == {"FY", "Q3"}

EndDates == {"2023-09-30", "2023-07-01"}

\* What else an entry reports; the two differ in every field.
Reports ==
    { [accn |-> "0000320193-23-000106", form |-> "10-K",
       fy |-> Num(2023, None), val |-> Num(1500000000, None)],
      [accn |-> "0000320193-23-000077", form |-> "10-Q",
       fy |-> Num(2022, Some(0)), val |-> Num(-5000000, None)] }

\* Entries of a unit group of the companyconcept response.
Units ==
    { [fp |-> f, end |-> e, accn |-> r.accn, form |-> r.form, fy |-> r.fy,
       val |-> r.val] : f \in FiscalPeriods, e \in EndDates, r \in Reports }

\* Bound: longest first unit group.
MaxSeries == 3

RECURSIVE SeqsUpTo(_, _)
SeqsUpTo(S, n) ==
    IF n = 0 THEN {<<>>}
    ELSE LET shorter == SeqsUpTo(S, n - 1)
         IN  shorter \cup {Append(q, x) : q \in {r \in shorter : Len(r) = n - 1}, x \in S}

\* A second unit group, when the concept is reported in two units.
OtherGroup ==
    << [fp |-> "FY", end |-> "2022-09-24", accn |-> "0000320193-22-000108",
        form |-> "10-K", fy |-> Num(2022, None), val |-> Num(42, None)] >>

\* data['units'].values() in order: none, one or two unit groups.
UnitMappings ==
    {<<>>} \cup {<<g>> : g \in SeqsUpTo(Units, MaxSeries)}
           \cup {<<g, OtherGroup>> : g \in SeqsUpTo(Units, MaxSeries)}

\* What the companyconcept endpoint may answer: nothing (the GET raises), a
\* non-success status, or a success carrying the concept's JSON.
ConceptAnswers ==
    { [reachable |-> FALSE, ok |-> FALSE, data |-> None],
      [reachable |-> TRUE, ok |-> FALSE, data |-> None] }
    \cup { [reachable |-> TRUE, ok |-> TRUE,
            data |-> Some([cik |-> 320193, tag |-> "Revenues", units |-> u])]
           : u \in UnitMappings }

\* get_request: the response, or None when requests.get raised (the bare
\* except prints and falls off the end of the function).
get_request(answer) == IF answer.reachable THEN Some(answer) ELSE None

StatementObject(data, unit) ==
    [cik |-> data.cik, gaap_item |-> data.tag, end_date |-> strptime(unit.end),
     accn |-> unit.accn, form |-> unit.form, fy |-> str_split(unit.fy)[1],
     fp |-> unit.fp, value |-> format_value_as_readable(int(unit.val))]

\* A plausible slip: a repeated pair replaces the observation kept for it.
RECURSIVE statement_loop_last(_, _, _, _, _)
statement_loop_last(data, units_list, i, unique_combinations, statement_objects_) ==
    IF i > Len(units_list) THEN statement_objects_
    ELSE LET unit == units_list[i]
             fp_end_date_tuple == <<unit.fp, unit.end>>
             same(o) == o.fp = unit.fp /\ o.end_date = strptime(unit.end)
         IN  IF fp_end_date_tuple \notin unique_combinations
             THEN statement_loop_last(data, units_list, i + 1,
                      unique_combinations \cup {fp_end_date_tuple},
                      Append(statement_objects_, StatementObject(data, unit)))
             ELSE statement_loop_last(data, units_list, i + 1, unique_combinations,
                      [j \in 1..Len(statement_objects_) |->
                          IF same(statement_objects_[j])
                          THEN StatementObject(data, unit)
                          ELSE statement_objects_[j]])

\* The for loop of get_statement_data from entry i on.
RECURSIVE statement_loop(_, _, _, _, _)
statement_loop(data, units_list, i, unique_combinations, statement_objects_) ==
    IF i > Len(units_list) THEN statement_objects_
    ELSE LET unit == units_list[i]
             fp_end_date_tuple == <<unit.fp, unit.end>>
         IN  IF fp_end_date_tuple \notin unique_combinations
             THEN statement_loop(data, units_list, i + 1,
                      unique_combinations \cup {fp_end_date_tuple},
                      Append(statement_objects_, StatementObject(data, unit)))
             ELSE statement_loop(data, units_list, i + 1, unique_combinations,
                      statement_objects_)

\* get_statement_data(cik, gaap_item) against the endpoint's answer.
get_statement_data(answer) ==
    LET response == get_request(answer)
    IN  IF response = None THEN Raises("AttributeError")
        ELSE IF response[1].ok
        THEN LET data == response[1].data[1]
             IN  IF data.units = <<>> THEN Raises("IndexError")
                 ELSE Returns(Some(statement_loop(data, data.units[1], 1, {}, <<>>)))
        ELSE Returns(None)

\* sorted(statements, key=end_date): a stable insertion sort.
RECURSIVE sort_statements_by_date(_)
sort_statements_by_date(statements) ==
    IF statements = <<>> THEN <<>>
    ELSE LET n      == Len(statements)
             last   == statements[n]
             sorted == sort_statements_by_date(SubSeq(statements, 1, n - 1))
             k      == Cardinality({j \in 1..(n - 1) :
                                      DateLE(sorted[j].end_date, last.end_date)})
         IN  SubSeq(sorted, 1, k) \o <<last>> \o SubSeq(sorted, k + 1, n - 1)

InitStatement ==
    /\ pc = "select"
    /\ upstream \in ConceptAnswers
    /\ raised = "none"
    /\ value = 0
    /\ readable = None
    /\ statement_objects = None
    /\ st = Blank
    /\ filings = None
    /\ limit = 0
    /\ xml_data = None
    /\ extracted_data = None

\* display_gaap_items once a GAAP item is selected: the fetch, then the table
\* or the text; an exception of the fetch leaves the handler.
DisplayGaapItems ==
    /\ pc = "select"
    /\ LET r == get_statement_data(upstream)
       IN  /\ raised' = r.exc
           /\ statement_objects' = r.ret
           /\ st' = IF r.exc # "none" THEN Blank
                    ELSE IF r.ret # None /\ r.ret[1] # <<>>
                    THEN [kind |-> "table", rows |-> r.ret[1]]
                    ELSE [kind |-> "text", rows |-> <<>>]
    /\ pc' = "displayed"
    /\ UNCHANGED <<upstream, value, readable, filings, limit, xml_data,
                   extracted_data>>

NextStatement == DisplayGaapItems

SpecStatement == InitStatement /\ [][NextStatement]_vars

\* The raw series get_statement_data consults: the first unit group.
RawSeries == upstream.data[1].units[1]

SamePair(a, b) == a.fp = b.fp /\ a.end = b.end

\* Index of the first entry of series s carrying the pair of entry s[i].
FirstOf(s, i) == CHOOSE k \in 1..i : SamePair(s[k], s[i]) /\
                     \A m \in 1..(k - 1) : ~SamePair(s[m], s[i])

\* Indices of the first occurrences, ascending: the k-th is the position
\* of the k-th distinct pair.
FirstIndices(s) == {i \in 1..Len(s) : FirstOf(s, i) = i}

NthFirst(s, k) == CHOOSE i \in FirstIndices(s) :
                      Cardinality({j \in FirstIndices(s) : j <= i}) = k

Returned == pc = "displayed" /\ raised = "none" /\ statement_objects # None

\* C1: the output holds exactly one observation per distinct (fp, end) pair of
\* the first unit group, in the order of the pairs' first occurrences, each
\* carrying the accn, form, fy (integer part) and val (formatted) of the first
\* entry with its pair; later entries with a seen pair change nothing.
C1_FirstOccurrenceKept ==
    Returned =>
        LET s   == RawSeries
            out == statement_objects[1]
        IN  /\ Len(out) = Cardinality({<<s[i].fp, s[i].end>> : i \in 1..Len(s)})
            /\ Len(out) = Cardinality(FirstIndices(s))
            /\ \A k \in 1..Len(out) :
                   LET u == s[NthFirst(s, k)]
                   IN  /\ out[k].fp = u.fp
                       /\ out[k].end_date = strptime(u.end)
                       /\ out[k].accn = u.accn
                       /\ out[k].form = u.form
                       /\ out[k].fy = ToString(u.fy.whole)
                       /\ out[k].value = format_value_as_readable(u.val.whole)

\* A series in which a pair returns after another pair, with other contents.
C1_Witness ==
    /\ Returned
    /\ Len(statement_objects[1]) = 2
    /\ \E i, j \in 1..Len(RawSeries) :
           /\ i + 1 < j
           /\ SamePair(RawSeries[i], RawSeries[j])
           /\ RawSeries[i].accn # RawSeries[j].accn
           /\ statement_objects[1][1].accn = RawSeries[i].accn

\* C4: every failure of the concept fetch, the GET raising as well as a
\* non-success status, makes get_statement_data return None without raising,
\* and display_gaap_items shows the no-data text.
C4_FetchFailureIsNoData ==
    (pc = "displayed" /\ (~upstream.reachable \/ ~upstream.ok)) =>
        /\ raised = "none"
        /\ statement_objects = None
        /\ st.kind = "text"

\* C5: the observations produced for a concept and rendered by
\* display_gaap_items are sorted by end_date, each no later than the next.
C5_SortedByEndDate ==
    (pc = "displayed" /\ st.kind = "table") =>
        /\ \A k \in 1..(Len(st.rows) - 1) :
               DateLE(st.rows[k].end_date, st.rows[k + 1].end_date)
        /\ st.rows = sort_statements_by_date(st.rows)

(***************************************************************************)
(* Filings utilities: the Filing record and get_filing                     *)
(***************************************************************************)

\* Bound: longest parallel array of the filings index.
MaxArrayLen == 2

Forms == {"10-K", "10-q", "8-K"}

\* The first n entries of a parallel array; entry i is tagged with i, so a
\* record built from another position is told apart.
Column(name, n) == [i \in 1..n |-> name \o "#" \o ToString(i)]

\* filings_data["filings"]["recent"]: six arrays, each of its own length.
RecentFilings ==
    { [accessionNumber |-> Column("accessionNumber", a),
       filingDate |-> Column("filingDate", b),
       reportDate |-> Column("reportDate", c),
       form |-> f,
       primaryDocument |-> Column("primaryDocument", d),
       primaryDocDescription |-> Column("primaryDocDescription", e)]
      : a \in 0..MaxArrayLen, b \in 0..MaxArrayLen, c \in 0..MaxArrayLen,
        d \in 0..MaxArrayLen, e \in 0..MaxArrayLen,
        f \in SeqsUpTo(Forms, MaxArrayLen) }

\* What the submissions endpoint may answer: nothing (the GET raises), a
\* non-success status with no JSON body, or the filings index.
SubmissionAnswers ==
    { [reachable |-> FALSE, ok |-> FALSE, data |-> None],
      [reachable |-> TRUE, ok |-> FALSE, data |-> None] }
    \cup { [reachable |-> TRUE, ok |-> TRUE, data |-> Some(r)] : r \in RecentFilings }

\* The dataclass constructor, positional, xml_data left at its default.
Filing(cik, ticker, accessionNumber, filingDate, reportDate, form, primaryDocument, primaryDocDescription, summary) ==
    [cik |-> cik, ticker |-> ticker, accessionNumber |-> accessionNumber,
     filingDate |-> filingDate, reportDate |-> reportDate, form |-> form,
     primaryDocument |-> primaryDocument,
     primaryDocDescription |-> primaryDocDescription, summary |-> summary,
     xml_data |-> None]

\* zip of the six arrays: as many tuples as the shortest array has entries.
zip6(a, b, c, d, e, f) ==
    LET n == Min(Len(a), Min(Len(b), Min(Len(c), Min(Len(d), Min(Len(e), Len(f))))))
    IN  [i \in 1..n |-> <<a[i], b[i], c[i], d[i], e[i], f[i]>>]

\* A plausible slip: the two dates passed to the constructor in the wrong order.
get_filing_swapped(ticker, cik, answer) ==
    LET response == get_request(answer)
    IN  IF response = None THEN Raises("AttributeError")
        ELSE IF ~response[1].ok THEN Raises("JSONDecodeError")
        ELSE LET recent == response[1].data[1]
                 rows == zip6(recent.accessionNumber, recent.filingDate,
                              recent.reportDate, recent.form,
                              recent.primaryDocument, recent.primaryDocDescription)
             IN  Returns(Some([i \in 1..Len(rows) |->
                     Filing(cik, ticker, rows[i][1], rows[i][3], rows[i][2],
                            rows[i][4], rows[i][5], rows[i][6], "No summary")]))

\* get_filing(ticker, cik) against the endpoint's answer; the list of Filing
\* records it returns (the bio it returns with it is not modelled).
get_filing(ticker, cik, answer) ==
    LET response == get_request(answer)
    IN  IF response = None THEN Raises("AttributeError")
        ELSE IF ~response[1].ok THEN Raises("JSONDecodeError")
        ELSE LET recent == response[1].data[1]
                 rows == zip6(recent.accessionNumber, recent.filingDate,
                              recent.reportDate, recent.form,
                              recent.primaryDocument, recent.primaryDocDescription)
             IN  Returns(Some([i \in 1..Len(rows) |->
                     Filing(cik, ticker, rows[i][1], rows[i][2], rows[i][3],
                            rows[i][4], rows[i][5], rows[i][6], "No summary")]))

InitFiling ==
    /\ pc = "search"
    /\ upstream \in SubmissionAnswers
    /\ raised = "none"
    /\ value = 0
    /\ readable = None
    /\ statement_objects = None
    /\ st = Blank
    /\ filings = None
    /\ limit = 0
    /\ xml_data = None
    /\ extracted_data = None

\* The first statement of display_company_info: bio, filings = get_filing(...).
GetFiling ==
    /\ pc = "search"
    /\ LET r == get_filing("AAPL", "0000320193", upstream)
       IN  /\ raised' = r.exc
           /\ filings' = r.ret
    /\ pc' = "catalogued"
    /\ UNCHANGED <<upstream, value, readable, statement_objects, st, limit,
                   xml_data, extracted_data>>

NextFiling == GetFiling

SpecFiling == InitFiling /\ [][NextFiling]_vars

Recent == upstream.data[1]

ArrayLengths ==
    { Len(Recent.accessionNumber), Len(Recent.filingDate), Len(Recent.reportDate),
      Len(Recent.form), Len(Recent.primaryDocument),
      Len(Recent.primaryDocDescription) }

GotIndex == pc = "catalogued" /\ upstream.reachable /\ upstream.ok

\* C6: when the six parallel arrays do not all have the same length,
\* get_filing fails with an input error and returns no Filing list, never a
\* list cut to the shortest array.
C6_MismatchIsFatal ==
    (GotIndex /\ Cardinality(ArrayLengths) > 1) =>
        raised # "none" /\ filings = None

\* C9: when the six arrays all have length N, get_filing returns N records,
\* the i-th holding the i-th entry of each array with the given cik and
\* ticker, and no record has facts.
C9_PositionalRecords ==
    (GotIndex /\ Cardinality(ArrayLengths) = 1) =>
        /\ raised = "none"
        /\ filings # None
        /\ Len(filings[1]) = Len(Recent.form)
        /\ \A i \in 1..Len(Recent.form) :
               /\ filings[1][i].accessionNumber = Recent.accessionNumber[i]
               /\ filings[1][i].filingDate = Recent.filingDate[i]
               /\ filings[1][i].reportDate = Recent.reportDate[i]
               /\ filings[1][i].form = Recent.form[i]
               /\ filings[1][i].primaryDocument = Recent.primaryDocument[i]
               /\ filings[1][i].primaryDocDescription = Recent.primaryDocDescription[i]
               /\ filings[1][i].cik = "0000320193"
               /\ filings[1][i].ticker = "AAPL"
               /\ filings[1][i].xml_data = None

C9_Witness ==
    /\ GotIndex
    /\ Cardinality(ArrayLengths) = 1
    /\ Len(Recent.form) = 2
    /\ Recent.form[1] # Recent.form[2]
    /\ filings # None
    /\ Len(filings[1]) = 2

(***************************************************************************)
(* Statement utilities: extract_context and extract_tags                   *)
(*                                                                         *)
(* A document is the sequence of its elements in document order, the root  *)
(* first.  A string that the code searches or splices (a namespace URI, a  *)
(* tag, an attribute value used in a path) is a sequence of chunks.        *)
(***************************************************************************)

UsGaapNs == <<"http://", "fasb.org/us-gaap", "/2023">>

XbrlNs == <<"http://www.xbrl.org/2003/instance">>

DeiNs == <<"http://xbrl.sec.gov/dei/2023">>

\* The xbrl prefix of the namespaces table.
namespaces_xbrl == <<"http://www.xbrl.org/2003/instance">>

NoAttrib == [contextRef |-> None, id |-> None, unitRef |-> None, decimals |-> None]

NoPeriod == [startDate |-> None, endDate |-> None, instant |-> None]

\* An element: namespace, local name, attributes, text and, for a context,
\* what its entity, explicitMember and period descendants hold.
Elem(ns, local, attrib, text, identifier, members, period) ==
    [ns |-> ns, local |-> local, attrib |-> attrib, text |-> text,
     identifier |-> identifier, members |-> members, period |-> period]

XbrlRoot == Elem(XbrlNs, "xbrl", NoAttrib, None, None, <<>>, NoPeriod)

\* Two contexts share the id c1 and differ in everything else.
SampleElements ==
    { Elem(XbrlNs, "context", [NoAttrib EXCEPT !.id = Some(<<"c1">>)], None,
           Some("0000320193"), <<>>,
           [startDate |-> Some("2022-09-25"), endDate |-> Some("2023-09-30"),
            instant |-> None]),
      Elem(XbrlNs, "context", [NoAttrib EXCEPT !.id = Some(<<"c1">>)], None,
           None, << <<"us-gaap:StatementBusinessSegmentsAxis", "aapl:AmericasSegmentMember">> >>,
           [startDate |-> None, endDate |-> None, instant |-> Some("2023-09-30")]),
      Elem(XbrlNs, "context", [NoAttrib EXCEPT !.id = Some(<<"c2">>)], None,
           Some("0000320193"), <<>>, NoPeriod),
      Elem(UsGaapNs, "Revenues",
           [contextRef |-> Some(<<"c1">>), id |-> Some(<<"f1">>),
            unitRef |-> Some(<<"usd">>), decimals |-> Some(<<"-6">>)],
           Some("383285000000"), None, <<>>, NoPeriod),
      Elem(UsGaapNs, "Assets", [NoAttrib EXCEPT !.contextRef = Some(<<"c2">>)],
           None, None, <<>>, NoPeriod),
      Elem(UsGaapNs, "Liabilities", NoAttrib, Some("290437000000"), None, <<>>,
           NoPeriod),
      Elem(UsGaapNs, "Goodwill",
           [NoAttrib EXCEPT !.contextRef = Some(<<"c", "'", "3">>)],
           Some("0"), None, <<>>, NoPeriod),
      Elem(DeiNs, "EntityRegistrantName",
           [NoAttrib EXCEPT !.contextRef = Some(<<"c1">>)],
           Some("Apple Inc."), None, <<>>, NoPeriod) }

\* Bound: most elements below the root.
MaxElems == 3

NotXml == [wellformed |-> FALSE, elems |-> <<>>]

Document(below) == [wellformed |-> TRUE, elems |-> <<XbrlRoot>> \o below]

Documents == {NotXml} \cup {Document(b) : b \in SeqsUpTo(SampleElements, MaxElems)}

\* elem.tag: "{" namespace "}" local name.
Tag(elem) == <<"{">> \o elem.ns \o <<"}", elem.local>>

\* needle in chunks, for a needle that is one chunk.
Contains(chunks, needle) == \E i \in 1..Len(chunks) : chunks[i] = needle

RECURSIVE Join(_)
Join(chunks) == IF chunks = <<>> THEN "" ELSE Head(chunks) \o Join(Tail(chunks))

\* s.partition(sep)[2]: what follows the first sep.
PartitionAfter(chunks, sep) ==
    IF ~Contains(chunks, sep) THEN <<>>
    ELSE LET k == CHOOSE i \in 1..Len(chunks) :
                      chunks[i] = sep /\ \A j \in 1..(i - 1) : chunks[j] # sep
         IN  SubSeq(chunks, k + 1, Len(chunks))

\* attrib.get(name, 'N/A').
AttribGet(optional) == IF optional = None THEN <<"N/A">> ELSE optional[1]

\* root.findall(f".//xbrl:context[@id='{context_ref}']", namespaces): the
\* indices of the elements found.  The reference is spliced between two
\* apostrophes; the path's literal ends at the first apostrophe after the
\* opening one and the predicate is valid only if "]" and nothing else
\* follows, else the library raises SyntaxError("invalid predicate").
\* ".//" searches below the root, not the root itself.
findall_context(elems, context_ref) ==
    LET spliced == context_ref \o <<"'", "]">>
        q       == CHOOSE i \in 1..Len(spliced) :
                       spliced[i] = "'" /\ \A j \in 1..(i - 1) : spliced[j] # "'"
        literal == SubSeq(spliced, 1, q - 1)
        rest    == SubSeq(spliced, q + 1, Len(spliced))
    IN  IF rest # <<"]">> THEN Raises("SyntaxError")
        ELSE Returns({i \in 2..Len(elems) :
                        /\ elems[i].ns = namespaces_xbrl
                        /\ elems[i].local = "context"
                        /\ elems[i].attrib.id = Some(literal)})

XMLContextObject(context_ref, context_element) ==
    [id |-> context_ref,
     entity_identifier |-> IF context_element.identifier = None THEN "N/A"
                           ELSE context_element.identifier[1],
     segments |-> context_element.members,
     period_start_date |-> context_element.period.startDate,
     period_end_date |-> context_element.period.endDate,
     period_instant |-> context_element.period.instant]

\* The elements at the indices of found, in document order.
RECURSIVE InOrder(_, _, _)
InOrder(elems, found, i) ==
    IF i > Len(elems) THEN <<>>
    ELSE (IF i \in found THEN <<elems[i]>> ELSE <<>>) \o InOrder(elems, found, i + 1)

extract_context(elems, context_ref) ==
    LET r == findall_context(elems, context_ref)
    IN  IF r.exc # "none" THEN r
        ELSE LET context_elements == InOrder(elems, r.ret, 1)
             IN  Returns([j \in 1..Len(context_elements) |->
                            XMLContextObject(context_ref, context_elements[j])])

XMLDataObject(elem, context) ==
    [tag |-> Join(PartitionAfter(Tag(elem), "}")),
     context_ref |-> AttribGet(elem.attrib.contextRef),
     elem_id |-> AttribGet(elem.attrib.id),
     value |-> elem.text,
     unit_ref |-> AttribGet(elem.attrib.unitRef),
     decimals |-> AttribGet(elem.attrib.decimals),
     context |-> context]

\* The for loop of extract_tags from element i on.
RECURSIVE tags_loop(_, _, _)
tags_loop(elems, i, extracted_data_) ==
    IF i > Len(elems) THEN Returns(extracted_data_)
    ELSE IF Contains(Tag(elems[i]), "fasb.org/us-gaap")
    THEN LET c == extract_context(elems, AttribGet(elems[i].attrib.contextRef))
         IN  IF c.exc # "none" THEN c
             ELSE tags_loop(elems, i + 1,
                      Append(extracted_data_, XMLDataObject(elems[i], c.ret)))
    ELSE tags_loop(elems, i + 1, extracted_data_)

\* extract_tags: ET.fromstring raises ParseError on bytes that are not
\* well-formed XML.
extract_tags(document) ==
    IF ~document.wellformed THEN Raises("ParseError")
    ELSE tags_loop(document.elems, 1, <<>>)

InitExtract ==
    /\ pc = "parse"
    /\ upstream = None
    /\ raised = "none"
    /\ value = 0
    /\ readable = None
    /\ statement_objects = None
    /\ st = Blank
    /\ filings = None
    /\ limit = 0
    /\ xml_data \in {Some(d) : d \in Documents}
    /\ extracted_data = None

ExtractTags ==
    /\ pc = "parse"
    /\ LET r == extract_tags(xml_data[1])
       IN  /\ raised' = r.exc
           /\ extracted_data' = IF r.exc = "none" THEN Some(r.ret) ELSE None
    /\ pc' = "extracted"
    /\ UNCHANGED <<upstream, value, readable, statement_objects, st, filings,
                   limit, xml_data>>

NextExtract == ExtractTags

SpecExtract == InitExtract /\ [][NextExtract]_vars

DocElems == xml_data[1].elems

IsUsGaap(e) == e.ns = UsGaapNs

IsContextFor(e, ref) ==
    e.ns = XbrlNs /\ e.local = "context" /\ e.attrib.id = Some(ref)

\* C8: for every statement document extract_tags returns, in document order,
\* exactly one Fact per us-gaap element and none for any other element, and
\* each Fact's context lists all context elements of the document whose id
\* equals the Fact's contextRef, in document order: every match when several
\* share the id, the empty list, without error, when none matches.
C8_FactsAndContexts ==
    (pc = "extracted" /\ xml_data[1].wellformed) =>
        /\ raised = "none"
        /\ extracted_data # None
        /\ LET facts == SelectSeq(DocElems, IsUsGaap)
               out   == extracted_data[1]
           IN  /\ Len(out) = Len(facts)
               /\ \A k \in 1..Len(facts) :
                      LET ref  == AttribGet(facts[k].attrib.contextRef)
                          For(e) == IsContextFor(e, ref)
                          ctxs == SelectSeq(DocElems, For)
                      IN  /\ out[k].tag = facts[k].local
                          /\ out[k].context_ref = ref
                          /\ out[k].value = facts[k].text
                          /\ Len(out[k].context) = Len(ctxs)
                          /\ \A j \in 1..Len(ctxs) :
                                 /\ out[k].context[j].id = ref
                                 /\ out[k].context[j].segments = ctxs[j].members
                                 /\ out[k].context[j].period_instant =
                                        ctxs[j].period.instant

(***************************************************************************)
(* Statement utilities: find_xml_link and get_xml                          *)
(***************************************************************************)

\* Bound: longest Filing list handed to get_xml.
MaxFilings == 3

\* The default of get_xml's limit parameter.
DefaultLimit == 3

Limits == -1..(MaxFilings + 1)

\* str.upper() on the sampled form codes.
upper(form) == IF form = "10-q" THEN "10-Q" ELSE form

Unreachable == [reachable |-> FALSE, ok |-> FALSE, data |-> None]

Served(x) == [reachable |-> TRUE, ok |-> TRUE, data |-> Some(x)]

IndexPage(table, link) == [table |-> table, xml_link |-> link]

NoFactsDocument == Document(<<CHOOSE e \in SampleElements : e.local = "EntityRegistrantName">>)

FactsDocument ==
    Document(<<CHOOSE e \in SampleElements : e.local = "context" /\ e.identifier = None,
               CHOOSE e \in SampleElements : e.local = "Revenues">>)

\* What the archive of one filing may answer for its index page and for the
\* document the page links to.
Archives ==
    { [index |-> Unreachable, document |-> Unreachable],
      [index |-> Served(IndexPage(FALSE, None)), document |-> Unreachable],
      [index |-> Served(IndexPage(TRUE, Some("aapl_htm.xml"))), document |-> Unreachable],
      [index |-> Served(IndexPage(TRUE, Some("aapl_htm.xml"))), document |-> Served(NotXml)],
      [index |-> Served(IndexPage(TRUE, Some("aapl_htm.xml"))),
       document |-> Served(NoFactsDocument)],
      [index |-> Served(IndexPage(TRUE, Some("aapl_htm.xml"))),
       document |-> Served(FactsDocument)] }

\* find_xml_link: the file name of the first link ending in _htm.xml, a
\* message when the page has no table, None when no link ends so.
find_xml_link(html_content) ==
    LET page == html_content.data[1]
    IN  IF ~page.table THEN Some("tbody tag not found") ELSE page.xml_link

\* The answer to the GET of base_url/cik/accession/xml_file_name: the linked
\* document under the name the index page gives, otherwise an error page,
\* which is not an XML document.
DocumentAnswer(archive, xml_file_name) ==
    IF xml_file_name # None /\ xml_file_name = archive.index.data[1].xml_link
    THEN archive.document
    ELSE Served(NotXml)

Failed(e, fs) == [exc |-> e, filings |-> fs]

\* A plausible slip: every filing, qualifying or not, consumes the limit.
RECURSIVE xml_loop_all(_, _, _, _, _)
xml_loop_all(updated_filings, limit_, archives, index, count) ==
    IF index > Len(updated_filings) THEN Failed("none", updated_filings)
    ELSE LET item == updated_filings[index]
         IN  IF upper(item.form) \in {"10-Q", "10-K"} /\ count < limit_
             THEN LET archive == archives[item.accessionNumber]
                      database_response == get_request(archive.index)
                  IN  IF database_response = None
                      THEN Failed("AttributeError", updated_filings)
                      ELSE LET xml_file_name == find_xml_link(database_response[1])
                               xml_response == get_request(DocumentAnswer(archive, xml_file_name))
                           IN  IF xml_response = None
                               THEN Failed("AttributeError", updated_filings)
                               ELSE LET data == extract_tags(xml_response[1].data[1])
                                    IN  IF data.exc # "none"
                                        THEN Failed(data.exc, updated_filings)
                                        ELSE xml_loop_all(
                                                 [updated_filings EXCEPT
                                                     ![index].xml_data = Some(data.ret)],
                                                 limit_, archives, index + 1, count + 1)
             ELSE xml_loop_all(updated_filings, limit_, archives, index + 1, count + 1)

\* The for loop of get_xml from position index on.  updated_filings is the
\* list passed in (the same object), so what was attached before an exception
\* stays attached.
RECURSIVE xml_loop(_, _, _, _, _)
xml_loop(updated_filings, limit_, archives, index, count) ==
    IF index > Len(updated_filings) THEN Failed("none", updated_filings)
    ELSE LET item == updated_filings[index]
         IN  IF upper(item.form) \in {"10-Q", "10-K"} /\ count < limit_
             THEN LET archive == archives[item.accessionNumber]
                      database_response == get_request(archive.index)
                  IN  IF database_response = None
                      THEN Failed("AttributeError", updated_filings)
                      ELSE LET xml_file_name == find_xml_link(database_response[1])
                               xml_response == get_request(DocumentAnswer(archive, xml_file_name))
                           IN  IF xml_response = None
                               THEN Failed("AttributeError", updated_filings)
                               ELSE LET data == extract_tags(xml_response[1].data[1])
                                    IN  IF data.exc # "none"
                                        THEN Failed(data.exc, updated_filings)
                                        ELSE xml_loop(
                                                 [updated_filings EXCEPT
                                                     ![index].xml_data = Some(data.ret)],
                                                 limit_, archives, index + 1, count + 1)
             ELSE xml_loop(updated_filings, limit_, archives, index + 1, count)

\* get_xml(filings, limit) against the archives' answers.
get_xml(filings_, limit_, archives) ==
    xml_loop(filings_, IF limit_ = 0 THEN Len(filings_) + 1 ELSE limit_,
             archives, 1, 0)

\* The Filing lists get_filing returns for a filings index whose arrays have
\* equal lengths.
CatalogFor(forms) ==
    get_filing("AAPL", "0000320193",
               Served([accessionNumber |-> Column("accessionNumber", Len(forms)),
                       filingDate |-> Column("filingDate", Len(forms)),
                       reportDate |-> Column("reportDate", Len(forms)),
                       form |-> forms,
                       primaryDocument |-> Column("primaryDocument", Len(forms)),
                       primaryDocDescription |->
                           Column("primaryDocDescription", Len(forms))])).ret

InitXml ==
    /\ pc = "catalogued"
    /\ upstream = None
    /\ raised = "none"
    /\ value = 0
    /\ readable = None
    /\ statement_objects = None
    /\ st = Blank
    /\ filings \in {CatalogFor(f) : f \in SeqsUpTo(Forms, MaxFilings)}
    /\ limit = DefaultLimit
    /\ xml_data = None
    /\ extracted_data = None

\* get_xml called on the catalogued list with some limit, the archives
\* answering in some way.
GetXml ==
    /\ pc = "catalogued"
    /\ \E l \in Limits :
       \E a \in [{filings[1][i].accessionNumber : i \in 1..Len(filings[1])} -> Archives] :
           LET r == get_xml(filings[1], l, a)
           IN  /\ limit' = l
               /\ upstream' = Some(a)
               /\ raised' = r.exc
               /\ filings' = Some(r.filings)
    /\ pc' = "augmented"
    /\ UNCHANGED <<value, readable, statement_objects, st, xml_data, extracted_data>>

NextXml == GetXml

SpecXml == InitXml /\ [][NextXml]_vars

Qualifies(i) == upper(filings[1][i].form) \in {"10-Q", "10-K"}

\* How many qualifying filings the list holds up to position i.
Rank(i) == Cardinality({j \in 1..i : Qualifies(j)})

\* Filing i is a qualifying filing within the limit.
Selected(i) == Qualifies(i) /\ (limit = 0 \/ Rank(i) <= limit)

ArchiveOf(i) == upstream[1][filings[1][i].accessionNumber]

Reachable(i) == ArchiveOf(i).index.reachable /\ ArchiveOf(i).document.reachable

Malformed(i) == Reachable(i) /\ ~ArchiveOf(i).document.data[1].wellformed

\* C2: after get_xml(filings, limit) ran to completion, a filing has facts
\* attached exactly if its form, upper-cased, is 10-Q or 10-K and it is among
\* the first `limit` such filings in list order (every such filing when limit
\* is 0); other forms never consume the limit and keep no facts.
C2_FactsWithinLimit ==
    (pc = "augmented" /\ raised = "none") =>
        \A i \in 1..Len(filings[1]) :
            (filings[1][i].xml_data # None) <=> Selected(i)

\* A non-qualifying filing first, then two qualifying ones, limit 1.
C2_Witness ==
    /\ pc = "augmented"
    /\ raised = "none"
    /\ limit = 1
    /\ Len(filings[1]) = 3
    /\ ~Qualifies(1) /\ Qualifies(2) /\ Qualifies(3)
    /\ filings[1][2].form = "10-q"
    /\ filings[1][2].xml_data # None
    /\ filings[1][3].xml_data = None

\* C3: when the instance document of a qualifying filing is malformed XML
\* (every fetch succeeding), get_xml treats that filing as having no facts
\* and continues: it does not raise, and the other qualifying filings within
\* the limit get their facts.
C3_MalformedIsSkipped ==
    (/\ pc = "augmented"
     /\ \A i \in 1..Len(filings[1]) : Selected(i) => Reachable(i)
     /\ \E i \in 1..Len(filings[1]) : Selected(i) /\ Malformed(i)) =>
        /\ raised = "none"
        /\ \A i \in 1..Len(filings[1]) :
               Selected(i) => (filings[1][i].xml_data = None <=> Malformed(i))

====
